---- MODULE Spec2Model ----
(***************************************************************************)
(* State-machine model of anti-afk.py (KeepAwake Auto): the control loop   *)
(* (watch_and_keep_awake / keep_awake_for / keep_awake_always), the        *)
(* StayAwake wake inhibitor with its Windows refresh thread, mouse jiggler *)
(* thread and POSIX child inhibitor, and the shutdown signal.              *)
(*                                                                         *)
(* Strings are sequences of one-character strings.  Time is a discrete     *)
(* clock in seconds; the main thread's code between two blocking calls     *)
(* takes no time, so the clock advances only while the main thread blocks  *)
(* in SHUTDOWN.wait, by one second or to the end of that wait.             *)
(* Thread.join(timeout=2) and Popen.wait(timeout=2) return either because  *)
(* the awaited thread/child has ended or because the timeout expired: the  *)
(* scheduler decides which.                                                *)
(***************************************************************************)
EXTENDS Integers, Sequences, FiniteSets, TLC

(* ---------------------------------------------------------------------- *)
(* Bounds of the model                                                     *)
(* ---------------------------------------------------------------------- *)
\* number of steps of the clock
MaxClockSteps == 3

(* ---------------------------------------------------------------------- *)
(* Program constants                                                       *)
(* ---------------------------------------------------------------------- *)

\* An execution state is the set of the flag bits that are set in it
\* (ES_CONTINUOUS = 0x80000000, ES_SYSTEM_REQUIRED = 0x1,
\* ES_DISPLAY_REQUIRED = 0x2); `|` is set union.
ES_CONTINUOUS == {"ES_CONTINUOUS"}

ES_SYSTEM_REQUIRED == {"ES_SYSTEM_REQUIRED"}

ES_DISPLAY_REQUIRED == {"ES_DISPLAY_REQUIRED"}

ALWAYS_WAIT_SEC == 3600

\* Python's None where a process name (a sequence of characters) may stand
None == <<"None">>

(* ---------------------------------------------------------------------- *)
(* Strings                                                                 *)
(* ---------------------------------------------------------------------- *)
UpperLetters ==
  <<"A","B","C","D","E","F","G","H","I","J","K","L","M",
    "N","O","P","Q","R","S","T","U","V","W","X","Y","Z">>

LowerLetters ==
  <<"a","b","c","d","e","f","g","h","i","j","k","l","m",
    "n","o","p","q","r","s","t","u","v","w","x","y","z">>

LowerChar(c) ==
  IF \E i \in 1..26 : UpperLetters[i] = c
    THEN LowerLetters[CHOOSE i \in 1..26 : UpperLetters[i] = c]
    ELSE c

RECURSIVE lower(_)
lower(s) ==
  IF s = <<>> THEN <<>> ELSE <<LowerChar(Head(s))>> \o lower(Tail(s))

IsSpace(c) == c \in {" ", "\t", "\n", "\r"}

RECURSIVE lstrip(_)
lstrip(s) == IF s # <<>> /\ IsSpace(Head(s)) THEN lstrip(Tail(s)) ELSE s

RECURSIVE rstrip(_)
rstrip(s) ==
  IF s # <<>> /\ IsSpace(s[Len(s)]) THEN rstrip(SubSeq(s, 1, Len(s) - 1)) ELSE s

strip(s) == rstrip(lstrip(s))

startswith(p, t) == Len(t) <= Len(p) /\ SubSeq(p, 1, Len(t)) = t

endswith(p, t) ==
  Len(t) <= Len(p) /\ SubSeq(p, Len(p) - Len(t) + 1, Len(p)) = t

contains(p, t) ==
  \E i \in 1..(Len(p) - Len(t) + 1) : SubSeq(p, i, i + Len(t) - 1) = t

DotExe == <<".","e","x","e">>

canon(name) ==
  LET n == lower(strip(name))
  IN  IF endswith(n, DotExe) THEN SubSeq(n, 1, Len(n) - 4) ELSE n

(* ---------------------------------------------------------------------- *)
(* Target matching                                                         *)
(* ---------------------------------------------------------------------- *)
DEFAULT_WATCH ==
  << <<"o","b","s">>,
     <<"o","b","s","6","4">>,
     <<"a","u","d","a","c","i","t","y">>,
     <<"r","e","a","p","e","r">>,
     <<"a","b","l","e","t","o","n">>,
     <<"l","o","g","i","c">>,
     <<"c","u","b","a","s","e">>,
     <<"f","l">>,
     <<"f","l","6","4">>,
     <<"p","r","o","t","o","o","l","s">>,
     <<"s","t","u","d","i","o"," ","o","n","e">>,
     <<"f","i","l","e","s","y","n","c">>,
     <<"f","r","e","e","f","i","l","e","s","y","n","c">>,
     <<"r","e","a","l","t","i","m","e","s","y","n","c">> >>

\* prepare_targets, non-regex modes: [canon(t) for t in raw_targets if t.strip()]
RECURSIVE prepare_targets(_, _)
prepare_targets(raw_targets, mmode) ==
  IF raw_targets = <<>> THEN <<>>
  ELSE IF strip(Head(raw_targets)) # <<>>
         THEN <<canon(Head(raw_targets))>> \o prepare_targets(Tail(raw_targets), mmode)
         ELSE prepare_targets(Tail(raw_targets), mmode)

\* every mode compares for equality
ModeMatch_Exact(p, t, mmode) == p = t

\* the mode predicate of any_match on one running name p and one target t
ModeMatch(p, t, mmode) ==
  CASE mmode = "exact"      -> p = t
    [] mmode = "startswith" -> startswith(p, t)
    [] OTHER                -> contains(p, t)

\* any_match iterates the set `running` in an order Python does not fix and
\* returns the first name that matches: every matching name is a possible
\* result; None when nothing matches or either argument is empty.
any_match(targets, runningSet, mmode) ==
  LET M == {p \in runningSet : \E k \in 1..Len(targets) : ModeMatch(p, targets[k], mmode)}
  IN  IF targets = <<>> \/ runningSet = {} \/ M = {} THEN {None} ELSE M

\* truth value of any_match's result in `if hit`
Truthy(h) == h # None /\ h # <<>>

\* list_process_names: canonical names of the rows; on POSIX the text after
\* the last "/" and only when non-empty.
RECURSIVE AfterLastSlash(_)
AfterLastSlash(s) ==
  IF \E i \in 1..Len(s) : s[i] = "/"
    THEN AfterLastSlash(SubSeq(s, (CHOOSE i \in 1..Len(s) : s[i] = "/") + 1, Len(s)))
    ELSE s

\* the rows list_process_names has added to `names` when it returns: all
\* of `rows` when nothing raised (ok); when something raised, none if it was
\* check_output, and on Windows those csv.reader had delivered before it
\* raised (the except clause, lines 395-396, keeps what `names` holds)
rows_read(os, rows, ok) ==
  IF ok THEN {rows}
  ELSE IF os = "Windows" THEN SUBSET rows
  ELSE {{}}

list_process_names(os, rows) ==
  IF os = "Windows"
    THEN {canon(r) : r \in rows}
    ELSE {canon(AfterLastSlash(r)) : r \in rows} \ {<<>>}

(* ---------------------------------------------------------------------- *)
(* Inputs                                                                  *)
(* ---------------------------------------------------------------------- *)
S_obs == <<"o","b","s">>

\* rows the process listing can show
ProcRows == { <<"O","b","s",".","e","x","e">>, <<"n","o","t","e","p","a","d">> }

\* the list `targets` main() builds from --watch: [] when the option is not
\* given, else its comma-separated parts
WatchArgs == { <<>>, <<S_obs>> }

\* --duration in seconds; 0 also stands for the option not given (both are
\* false in `if args.duration`)
DurationArgs == { 0, 0 - 1, 2, 5 }

\* --poll values
PollArgs == { 0, 1, 2 }

OSNames == { "Windows", "Darwin", "Linux", "Other" }

Facilities == { "systemd-inhibit", "gnome-session-inhibit", "xdg-screensaver" }

\* The plain command line: watch mode with the default list on Windows.
BaseConfig ==
  [ os |-> "Windows", duration |-> 0, always_on |-> FALSE, watch |-> <<>>,
    match |-> "substr", poll |-> 1, jiggle |-> FALSE,
    display_only |-> FALSE, system_only |-> FALSE ]

\* Resolved command lines: the plain one on every platform, and that with
\* one group of options changed.
Configs ==
  LET OnOS == { [BaseConfig EXCEPT !.os = o] : o \in OSNames }
  IN  OnOS
      \cup { [c EXCEPT !.duration = d] : c \in OnOS, d \in DurationArgs }
      \cup { [c EXCEPT !.always_on = TRUE] : c \in OnOS }
      \cup { [c EXCEPT !.display_only = TRUE] : c \in OnOS }
      \cup { [c EXCEPT !.system_only = TRUE] : c \in OnOS }
      \cup { [BaseConfig EXCEPT !.jiggle = TRUE, !.duration = d, !.always_on = a] :
               d \in {0, 2}, a \in BOOLEAN }
      \cup { [BaseConfig EXCEPT !.os = "Linux", !.watch = w, !.match = m] :
               w \in WatchArgs, m \in {"substr", "exact", "startswith"} }
      \cup { [BaseConfig EXCEPT !.os = "Darwin", !.poll = q] : q \in PollArgs }
      \cup { [BaseConfig EXCEPT !.display_only = TRUE, !.system_only = TRUE],
             [BaseConfig EXCEPT !.duration = 5, !.watch = <<S_obs>>] }

(* ---------------------------------------------------------------------- *)
(* State                                                                   *)
(* ---------------------------------------------------------------------- *)
VARIABLES
  cfg,           \* the parsed command line (args) and OS
  fn,            \* a function called on its own: its arguments and result
  jig,           \* a _WinMouseJiggler driven on its own, with its threads
  rfr,           \* a _win_refresh_loop thread run on its own
  clk,           \* the clock of jig and rfr, seconds
  prepared,      \* watch_and_keep_awake's `prepared`
  list_failed,   \* the latest list_process_names caught an exception
  pc,            \* position of the main thread
  ret,           \* where StayAwake.__exit__ returns to
  keeper,        \* the StayAwake object in use (its number), 0 for None
  active,        \* watch_and_keep_awake's `active`
  hit,           \* watch_and_keep_awake's `hit`
  exc,           \* the exception propagating in the main thread, or None
  SHUTDOWN,      \* the threading.Event SHUTDOWN
  kbint,         \* a KeyboardInterrupt has been raised in the main thread
  now,           \* clock, seconds
  steps,         \* number of steps the clock has made
  deadline,      \* when the current SHUTDOWN.wait times out
  nsess,         \* number of StayAwake objects constructed
  refresh_thr,   \* per StayAwake: state of _refresh_thr
  refresh_stop,  \* per StayAwake: the Event _refresh_stop
  jig_thr,       \* per StayAwake: state of jiggle._thr
  jig_stop,      \* per StayAwake: the Event jiggle._stop
  proc,          \* per StayAwake: state of the child self.proc
  psig,          \* per StayAwake: last signal sent to the child
  last_popen,    \* argv of the latest subprocess.Popen call
  es_state,      \* execution state last set by SetThreadExecutionState
  acquired,      \* per StayAwake: __enter__ returned normally
  exits,         \* per StayAwake: number of __exit__ calls
  released,      \* per StayAwake: an __exit__ call has returned
  tick,          \* number of the current poll tick of the watch loop
  acqTick,       \* per StayAwake: tick in which the loop body called __enter__
  relTick,       \* per StayAwake: tick in which the loop body called __exit__
  sigAt,         \* time of the first shutdown request, -1 before
  acqAt,         \* per StayAwake: time of the __enter__ call
  relAt,         \* per StayAwake: time of the first __exit__ call, -1 before
  scen,          \* ticks so far that followed the snapshot scenario, -1 if left
  late_refresh   \* a refresh thread called SetThreadExecutionState after
                 \* its StayAwake's __exit__ had returned

vars ==
  << cfg, fn, jig, rfr, clk, prepared, list_failed, pc, ret, keeper, active, hit, exc, SHUTDOWN, kbint, now,
     steps, deadline, nsess, refresh_thr, refresh_stop, jig_thr, jig_stop, proc, psig,
     last_popen, es_state, acquired, exits, released, tick, acqTick, relTick, sigAt,
     acqAt, relAt, scen, late_refresh >>

\* every poll tick lasts at least one second, so no more StayAwake objects
\* than this are constructed before the clock stops
MaxSessions == MaxClockSteps + 2

Sessions == 1..MaxSessions

\* no function is called on its own
NoCall == [kind |-> "none", done |-> TRUE]

\* the state of the process when main() starts
StartState ==
  /\ prepared = <<>>
  /\ list_failed = FALSE
  /\ pc = "main"
  /\ ret = "none"
  /\ keeper = 0
  /\ active = FALSE
  /\ hit = None
  /\ exc = "none"
  /\ SHUTDOWN = FALSE
  /\ kbint = FALSE
  /\ now = 0
  /\ steps = 0
  /\ deadline = 0
  /\ nsess = 0
  /\ refresh_thr = [i \in Sessions |-> "none"]
  /\ refresh_stop = [i \in Sessions |-> FALSE]
  /\ jig_thr = [i \in Sessions |-> "none"]
  /\ jig_stop = [i \in Sessions |-> FALSE]
  /\ proc = [i \in Sessions |-> "none"]
  /\ psig = [i \in Sessions |-> "none"]
  /\ last_popen = <<>>
  /\ es_state = ES_CONTINUOUS
  /\ acquired = [i \in Sessions |-> FALSE]
  /\ exits = [i \in Sessions |-> 0]
  /\ released = [i \in Sessions |-> FALSE]
  /\ tick = 0
  /\ acqTick = [i \in Sessions |-> 0]
  /\ relTick = [i \in Sessions |-> 0]
  /\ sigAt = 0 - 1
  /\ acqAt = [i \in Sessions |-> 0 - 1]
  /\ relAt = [i \in Sessions |-> 0 - 1]
  /\ scen = 0
  /\ late_refresh = FALSE

\* no jiggler and no refresh loop is run on its own
NoJiggler == [os |-> "none"]

NoRefresh == [at |-> "none"]

NoTask == jig = NoJiggler /\ rfr = NoRefresh /\ clk = 0

Init ==
  /\ cfg \in Configs
  /\ fn = NoCall
  /\ NoTask
  /\ StartState

(* ---------------------------------------------------------------------- *)
(* StayAwake                                                               *)
(* ---------------------------------------------------------------------- *)
\* StayAwake._win_compute_flags
win_compute_flags(display_only, system_only) ==
  IF display_only /\ ~system_only THEN ES_CONTINUOUS \cup ES_DISPLAY_REQUIRED
  ELSE IF system_only /\ ~display_only THEN ES_CONTINUOUS \cup ES_SYSTEM_REQUIRED
  ELSE ES_CONTINUOUS \cup ES_SYSTEM_REQUIRED \cup ES_DISPLAY_REQUIRED

\* argv of the macOS inhibitor
caffeinate_args(display_only, system_only) ==
  IF display_only /\ ~system_only THEN <<"caffeinate", "-d">>
  ELSE IF system_only /\ ~display_only THEN <<"caffeinate", "-i">>
  ELSE <<"caffeinate", "-di">>

\* argv of the Linux inhibitor for the facility found
linux_args(fac, display_only, system_only) ==
  CASE fac = "systemd-inhibit" ->
         <<"systemd-inhibit",
           IF display_only /\ ~system_only THEN "--what=idle"
           ELSE IF system_only /\ ~display_only THEN "--what=sleep"
           ELSE "--what=idle:sleep",
           "--mode=block", "--why=KeepAwake", "bash", "-lc", "sleep infinity">>
    [] fac = "gnome-session-inhibit" ->
         <<"gnome-session-inhibit", "--reason", "KeepAwake">>
         \o (IF display_only /\ ~system_only THEN <<"--inhibit", "idle">>
             ELSE IF system_only /\ ~display_only THEN <<"--inhibit", "suspend">>
             ELSE <<"--inhibit", "idle", "--inhibit", "suspend">>)
         \o <<"bash", "-lc", "sleep infinity">>
    [] OTHER ->
         <<"bash", "-lc", "while true; do xdg-screensaver reset; sleep 50; done">>

\* a probe order that prefers gnome-session-inhibit
linux_pick_GnomeFirst(avail) ==
  IF "gnome-session-inhibit" \in avail THEN "gnome-session-inhibit"
  ELSE IF "systemd-inhibit" \in avail THEN "systemd-inhibit"
  ELSE IF "xdg-screensaver" \in avail THEN "xdg-screensaver"
  ELSE "none"

\* the facility the Linux branch of __enter__ uses when shutil.which finds
\* those in `avail`, "none" when it finds none
linux_pick(avail) ==
  IF "systemd-inhibit" \in avail THEN "systemd-inhibit"
  ELSE IF "gnome-session-inhibit" \in avail THEN "gnome-session-inhibit"
  ELSE IF "xdg-screensaver" \in avail THEN "xdg-screensaver"
  ELSE "none"

\* a Windows branch that starts the refresh thread before it looks at the
\* result of the initial SetThreadExecutionState
WinEnter_ThreadFirst(i, ok) ==
  /\ cfg.os = "Windows"
  /\ es_state' = IF ok THEN win_compute_flags(cfg.display_only, cfg.system_only)
                       ELSE es_state
  /\ refresh_stop' = [refresh_stop EXCEPT ![i] = FALSE]
  /\ refresh_thr' = [refresh_thr EXCEPT ![i] = "idle"]
  /\ IF cfg.jiggle /\ ok
       THEN /\ jig_stop' = [jig_stop EXCEPT ![i] = FALSE]
            /\ jig_thr' = [jig_thr EXCEPT ![i] = "idle"]
       ELSE UNCHANGED <<jig_stop, jig_thr>>
  /\ exc' = IF ok THEN "none" ELSE "OSError"
  /\ UNCHANGED <<proc, psig, last_popen>>

\* StayAwake.__enter__ on object i, Windows branch.  `ok` is whether the
\* initial SetThreadExecutionState returns a non-zero previous state.
WinEnter(i, ok) ==
  /\ cfg.os = "Windows"
  /\ IF ok
       THEN /\ es_state' = win_compute_flags(cfg.display_only, cfg.system_only)
            /\ refresh_stop' = [refresh_stop EXCEPT ![i] = FALSE]
            /\ refresh_thr' = [refresh_thr EXCEPT ![i] = "idle"]
            /\ IF cfg.jiggle
                 THEN /\ jig_stop' = [jig_stop EXCEPT ![i] = FALSE]
                      /\ jig_thr' = [jig_thr EXCEPT ![i] = "idle"]
                 ELSE UNCHANGED <<jig_stop, jig_thr>>
            /\ exc' = "none"
       ELSE /\ exc' = "OSError"
            /\ UNCHANGED <<es_state, refresh_stop, refresh_thr, jig_stop, jig_thr>>
  /\ UNCHANGED <<proc, psig, last_popen>>

\* macOS branch: Popen(["caffeinate", ...]); `ok` is whether Popen finds the
\* executable.
DarwinEnter(i, ok) ==
  /\ cfg.os = "Darwin"
  /\ IF ok
       THEN /\ proc' = [proc EXCEPT ![i] = "running"]
            /\ last_popen' =
                           caffeinate_args(cfg.display_only, cfg.system_only)
            /\ exc' = "none"
       ELSE /\ exc' = "OSError"
            /\ UNCHANGED <<proc, last_popen>>
  /\ UNCHANGED <<es_state, refresh_stop, refresh_thr, jig_stop, jig_thr, psig>>

\* Linux branch: `avail` is what shutil.which finds at this call.
LinuxEnter(i, avail) ==
  /\ cfg.os = "Linux"
  /\ LET fac == linux_pick(avail)
     IN  IF fac = "none"
              \/ (fac = "xdg-screensaver" /\ cfg.system_only /\ ~cfg.display_only)
           THEN /\ exc' = IF fac = "none" THEN "EnvironmentError: no inhibitor"
                                           ELSE "EnvironmentError: system-only"
                /\ UNCHANGED <<proc, last_popen>>
           ELSE /\ proc' = [proc EXCEPT ![i] = "running"]
                /\ last_popen' =
                               linux_args(fac, cfg.display_only, cfg.system_only)
                /\ exc' = "none"
  /\ UNCHANGED <<es_state, refresh_stop, refresh_thr, jig_stop, jig_thr, psig>>

\* any other platform
OtherEnter(i) ==
  /\ cfg.os \notin {"Windows", "Darwin", "Linux"}
  /\ exc' = "NotImplementedError"
  /\ UNCHANGED <<es_state, refresh_stop, refresh_thr, jig_stop, jig_thr,
                 proc, psig, last_popen>>

\* StayAwake(...) followed by __enter__ on the new object i; exc' tells how
\* __enter__ ended.
Enter(i) ==
  /\ nsess' = i
  /\ acqAt' = [acqAt EXCEPT ![i] = now]
  /\ \/ \E ok \in BOOLEAN : WinEnter(i, ok)
     \/ \E ok \in BOOLEAN : DarwinEnter(i, ok)
     \/ \E avail \in SUBSET Facilities : LinuxEnter(i, avail)
     \/ OtherEnter(i)
  /\ acquired' = [acquired EXCEPT ![i] = (exc' = "none")]

\* a call of __exit__ on object i that returns to `to`: lines 357-358
ExitCall(i, to) ==
  /\ pc' = "x_begin"
  /\ ret' = to
  /\ exits' = [exits EXCEPT ![i] = @ + 1]
  /\ relAt' = [relAt EXCEPT ![i] = IF @ = 0 - 1 THEN now ELSE @]

\* what Enter writes, and the part of it that belongs to the OS and threads
EnterVars ==
  << nsess, acqAt, acquired, exc, es_state, refresh_stop, refresh_thr,
     jig_stop, jig_thr, proc, psig, last_popen >>

OsVars ==
  << es_state, refresh_stop, refresh_thr, jig_stop, jig_thr, proc, psig, last_popen >>

(* ---------------------------------------------------------------------- *)
(* main(): mode selection                                                  *)
(* ---------------------------------------------------------------------- *)
\* truth value of args.watch: the option given and not the empty string
WatchGiven == cfg.watch # <<>> /\ cfg.watch # << <<>> >>

\* lines 513-564: the mode main() runs, "invalid" for sys.exit(2)
Mode ==
  IF cfg.display_only /\ cfg.system_only THEN "invalid"
  ELSE IF cfg.duration # 0 /\ (WatchGiven \/ cfg.always_on) THEN "invalid"
  ELSE IF cfg.duration # 0 THEN "duration"
  ELSE IF cfg.always_on THEN "always"
  ELSE "watch"

\* line 403: targets if targets else DEFAULT_WATCH, with the list `targets`
\* main() builds from --watch (lines 550-552)
targets_or_default == IF cfg.watch # <<>> THEN cfg.watch ELSE DEFAULT_WATCH

\* main() up to the call of the mode's function; in watch mode including
\* line 403, prepared = prepare_targets(targets, match_mode)
MainDispatch ==
  /\ pc = "main"
  /\ pc' = CASE Mode = "invalid"  -> "exit2"
             [] Mode = "duration" -> "d_enter"
             [] Mode = "always"   -> "a_enter"
             [] OTHER             -> "w_loop"
  /\ prepared' = IF Mode = "watch" THEN prepare_targets(targets_or_default, cfg.match)
                                    ELSE prepared
  /\ UNCHANGED << cfg, fn, jig, rfr, clk, list_failed, ret, keeper, active, hit, SHUTDOWN, kbint, now, steps,
                  deadline, exits, released, tick, acqTick, relTick, sigAt,
                  relAt, scen, late_refresh >>
  /\ UNCHANGED EnterVars

(* ---------------------------------------------------------------------- *)
(* watch_and_keep_awake                                                    *)
(* ---------------------------------------------------------------------- *)
Max(a, b) == IF a >= b THEN a ELSE b

\* the snapshots of the scenario [{}, {obs}, {obs}, {}]
Scenario == << {}, {S_obs}, {S_obs}, {} >>

\* line 409: while not SHUTDOWN.is_set()
WatchLoop ==
  /\ pc = "w_loop"
  /\ IF SHUTDOWN
       THEN pc' = "w_finally" /\ tick' = tick
       ELSE pc' = "w_body" /\ tick' = tick + 1
  /\ UNCHANGED << cfg, fn, jig, rfr, clk, prepared, list_failed, ret, keeper, active, hit, SHUTDOWN, kbint, now, steps,
                  deadline, exits, released, acqTick, relTick, sigAt, relAt,
                  scen, late_refresh >>
  /\ UNCHANGED EnterVars

\* line 420 without the test of `active`
ShouldAcquire_AnyHit(h, act) == Truthy(h)

\* line 420: if hit and not active
ShouldAcquire(h, act) == Truthy(h) /\ ~act

\* line 430 with a branch that is never taken
ShouldRelease_Never(h, act) == FALSE

\* line 430 without the test of `hit`
ShouldRelease_WhenActive(h, act) == act

\* line 430: elif not hit and active
ShouldRelease(h, act) == ~Truthy(h) /\ act

\* line 437: the timeout of the inter-tick wait
poll_timeout(poll) == Max(1, poll)

\* lines 410-435, one pass of the loop body: the process listing (`ok` is
\* whether the listing command ran; otherwise the except clause leaves the
\* set empty), hit = any_match(...), and the two transitions
WatchTick ==
  /\ pc = "w_body"
  /\ \E rows \in SUBSET ProcRows, ok \in BOOLEAN :
     \E read \in rows_read(cfg.os, rows, ok) :
       LET runningSet == list_process_names(cfg.os, read)
       IN
       /\ list_failed' = ~ok
       /\ scen' = IF scen = tick - 1 /\ tick <= Len(Scenario)
                     /\ runningSet = Scenario[tick]
                    THEN tick ELSE 0 - 1
       /\ \E h \in any_match(prepared, runningSet, cfg.match) :
            /\ hit' = h
            /\ IF ShouldAcquire(h, active)
                 THEN /\ Enter(nsess + 1)
                      /\ keeper' = nsess + 1
                      /\ acqTick' = [acqTick EXCEPT ![nsess + 1] = tick]
                      /\ IF exc' = "none"
                           THEN /\ active' = TRUE
                                /\ pc' = "w_wait"
                                /\ deadline' = now + poll_timeout(cfg.poll)
                           ELSE /\ active' = active
                                /\ pc' = "w_finally"
                                /\ deadline' = deadline
                      /\ UNCHANGED << ret, exits, relAt, relTick >>
                 ELSE IF ShouldRelease(h, active)
                   THEN /\ IF keeper # 0
                             THEN /\ ExitCall(keeper, "w_after")
                                  /\ relTick' = [relTick EXCEPT ![keeper] = tick]
                                  /\ UNCHANGED << active, deadline >>
                             ELSE /\ active' = FALSE
                                  /\ pc' = "w_wait"
                                  /\ deadline' = now + poll_timeout(cfg.poll)
                                  /\ UNCHANGED << ret, exits, relAt, relTick >>
                        /\ UNCHANGED << keeper, acqTick >>
                        /\ UNCHANGED EnterVars
                   ELSE /\ pc' = "w_wait"
                        /\ deadline' = now + poll_timeout(cfg.poll)
                        /\ UNCHANGED << ret, keeper, active, exits, relAt,
                                        relTick, acqTick >>
                        /\ UNCHANGED EnterVars
  /\ UNCHANGED << cfg, fn, jig, rfr, clk, prepared, SHUTDOWN, kbint, now, steps, released, tick,
                  sigAt, late_refresh >>

\* lines 434-435, after keeper.__exit__ has returned
WatchAfterExit ==
  /\ pc = "w_after"
  /\ keeper' = 0
  /\ active' = FALSE
  /\ pc' = "w_wait"
  /\ deadline' = now + poll_timeout(cfg.poll)
  /\ UNCHANGED << cfg, fn, jig, rfr, clk, prepared, list_failed, ret, hit, SHUTDOWN, kbint, now, steps, exits, released,
                  tick, acqTick, relTick, sigAt, relAt, scen, late_refresh >>
  /\ UNCHANGED EnterVars

\* a wait that sleeps for the whole timeout
EventWaitOver_TimeoutOnly(isSet, t, dl) == t >= dl

\* Event.wait(timeout) returns: the event is set or the timeout has passed
EventWaitOver(isSet, t, dl) == isSet \/ t >= dl

\* SHUTDOWN.wait(timeout) returns
WaitOver == EventWaitOver(SHUTDOWN, now, deadline)

\* line 437
WatchWait ==
  /\ pc = "w_wait"
  /\ WaitOver
  /\ pc' = "w_loop"
  /\ UNCHANGED << cfg, fn, jig, rfr, clk, prepared, list_failed, ret, keeper, active, hit, SHUTDOWN, kbint, now, steps,
                  deadline, exits, released, tick, acqTick, relTick, sigAt,
                  relAt, scen, late_refresh >>
  /\ UNCHANGED EnterVars

\* line 441 with a finally block that releases nothing
FinallyReleases_Never(k) == FALSE

\* line 441: if keeper
FinallyReleases(k) == k # 0

\* lines 440-443
WatchFinally ==
  /\ pc = "w_finally"
  /\ IF FinallyReleases(keeper)
       THEN ExitCall(keeper, "done")
       ELSE pc' = "done" /\ UNCHANGED << ret, exits, relAt >>
  /\ UNCHANGED << cfg, fn, jig, rfr, clk, prepared, list_failed, keeper, active, hit, SHUTDOWN, kbint, now, steps,
                  deadline, released, tick, acqTick, relTick, sigAt, scen,
                  late_refresh >>
  /\ UNCHANGED EnterVars

(* ---------------------------------------------------------------------- *)
(* StayAwake.__exit__ on the object `keeper`                               *)
(* ---------------------------------------------------------------------- *)
\* lines 360-364 (Windows: signal the refresh thread) and 370-371 (child:
\* terminate, which first polls and so reaps a child that has exited)
ExitBegin ==
  /\ pc = "x_begin"
  /\ IF cfg.os = "Windows"
       THEN /\ IF refresh_thr[keeper] # "none"
                 THEN /\ refresh_stop' = [refresh_stop EXCEPT ![keeper] = TRUE]
                      /\ pc' = "x_join"
                 ELSE /\ refresh_stop' = refresh_stop
                      /\ pc' = "x_clear"
            /\ UNCHANGED << proc, psig >>
       ELSE /\ IF proc[keeper] # "none"
                 THEN /\ proc' = [proc EXCEPT ![keeper] =
                                    IF @ = "exited" THEN "reaped" ELSE @]
                      /\ psig' = [psig EXCEPT ![keeper] =
                                    IF proc[keeper] = "running" THEN "TERM" ELSE @]
                      /\ pc' = "x_wait"
                 ELSE /\ pc' = "x_ret"
                      /\ UNCHANGED << proc, psig >>
            /\ refresh_stop' = refresh_stop
  /\ UNCHANGED << cfg, fn, jig, rfr, clk, prepared, list_failed, ret, keeper, active, hit, exc, SHUTDOWN, kbint,
                  now, steps, deadline, nsess, refresh_thr, jig_thr, jig_stop, last_popen,
                  es_state, acquired, exits, released, tick, acqTick, relTick,
                  sigAt, acqAt, relAt, scen, late_refresh >>

\* line 365: _refresh_thr.join(timeout=2) returns, the thread ended or not
ExitJoinRefresh ==
  /\ pc = "x_join"
  /\ pc' = "x_clear"
  /\ UNCHANGED << cfg, fn, jig, rfr, clk, prepared, list_failed, ret, keeper, active, hit, SHUTDOWN, kbint, now, steps,
                  deadline, exits, released, tick, acqTick, relTick, sigAt,
                  relAt, scen, late_refresh >>
  /\ UNCHANGED EnterVars

\* lines 366-369: clear the execution state, then jiggle.stop() up to its
\* _stop.set() (lines 242-245).  `raised` is whether the call of line 366
\* raises: the try statement has no except clause, and `return False` in its
\* finally block (376-377) drops the exception, so lines 367-369 are skipped.
ExitClear ==
  /\ pc = "x_clear"
  /\ \E raised \in BOOLEAN :
       IF raised
         THEN /\ pc' = "x_ret"
              /\ UNCHANGED << es_state, jig_stop >>
         ELSE /\ es_state' = ES_CONTINUOUS
              /\ IF cfg.jiggle /\ jig_thr[keeper] # "none"
                   THEN /\ jig_stop' = [jig_stop EXCEPT ![keeper] = TRUE]
                        /\ pc' = "x_jjoin"
                   ELSE /\ jig_stop' = jig_stop
                        /\ pc' = "x_ret"
  /\ UNCHANGED << cfg, fn, jig, rfr, clk, prepared, list_failed, ret, keeper, active, hit, exc, SHUTDOWN, kbint,
                  now, steps, deadline, nsess, refresh_thr, refresh_stop, jig_thr, proc,
                  psig, last_popen, acquired, exits, released, tick, acqTick, relTick,
                  sigAt, acqAt, relAt, scen, late_refresh >>

\* line 246: jiggle._thr.join(timeout=2) returns, the thread ended or not
ExitJoinJiggle ==
  /\ pc = "x_jjoin"
  /\ pc' = "x_ret"
  /\ UNCHANGED << cfg, fn, jig, rfr, clk, prepared, list_failed, ret, keeper, active, hit, SHUTDOWN, kbint, now, steps,
                  deadline, exits, released, tick, acqTick, relTick, sigAt,
                  relAt, scen, late_refresh >>
  /\ UNCHANGED EnterVars

\* lines 372-375: proc.wait(timeout=2) reaps a child that has exited;
\* on TimeoutExpired the child is still running and gets proc.kill()
ExitWaitChild ==
  /\ pc = "x_wait"
  /\ \/ /\ proc[keeper] \in {"exited", "reaped"}
        /\ proc' = [proc EXCEPT ![keeper] = "reaped"]
        /\ psig' = psig
     \/ /\ proc[keeper] = "running"
        /\ psig' = [psig EXCEPT ![keeper] = "KILL"]
        /\ proc' = proc
  /\ pc' = "x_ret"
  /\ UNCHANGED << cfg, fn, jig, rfr, clk, prepared, list_failed, ret, keeper, active, hit, exc, SHUTDOWN, kbint,
                  now, steps, deadline, nsess, refresh_thr, refresh_stop, jig_thr,
                  jig_stop, last_popen, es_state, acquired, exits, released, tick,
                  acqTick, relTick, sigAt, acqAt, relAt, scen, late_refresh >>

\* line 377: return False
ExitReturn ==
  /\ pc = "x_ret"
  /\ pc' = ret
  /\ released' = [released EXCEPT ![keeper] = TRUE]
  /\ UNCHANGED << cfg, fn, jig, rfr, clk, prepared, list_failed, ret, keeper, active, hit, SHUTDOWN, kbint, now, steps,
                  deadline, exits, tick, acqTick, relTick, sigAt, relAt, scen,
                  late_refresh >>
  /\ UNCHANGED EnterVars

(* ---------------------------------------------------------------------- *)
(* keep_awake_for and keep_awake_always                                    *)
(* ---------------------------------------------------------------------- *)
\* line 455 with a wait that does not wait
duration_timeout_Zero(duration) == 0

\* line 455: the timeout of the wait
duration_timeout(duration) == Max(0, duration)

\* line 470 with a loop that ends after one pass
AlwaysContinues_Once(isSet) == FALSE

\* line 470: while not SHUTDOWN.is_set()
AlwaysContinues(isSet) == ~isSet

\* lines 449-454: with StayAwake(...); an exception of __enter__ leaves the
\* function
DurEnter ==
  /\ pc = "d_enter"
  /\ Enter(nsess + 1)
  /\ keeper' = nsess + 1
  /\ IF exc' = "none"
       THEN pc' = "d_wait" /\ deadline' = now + duration_timeout(cfg.duration)
       ELSE pc' = "done" /\ deadline' = deadline
  /\ UNCHANGED << cfg, fn, jig, rfr, clk, prepared, list_failed, ret, active, hit, SHUTDOWN, kbint, now, steps, exits,
                  released, tick, acqTick, relTick, sigAt, relAt, scen,
                  late_refresh >>

\* line 455 and the end of the with block
DurWait ==
  /\ pc = "d_wait"
  /\ WaitOver
  /\ ExitCall(keeper, "done")
  /\ UNCHANGED << cfg, fn, jig, rfr, clk, prepared, list_failed, keeper, active, hit, SHUTDOWN, kbint, now, steps,
                  deadline, released, tick, acqTick, relTick, sigAt, scen,
                  late_refresh >>
  /\ UNCHANGED EnterVars

\* lines 464-469
AlwEnter ==
  /\ pc = "a_enter"
  /\ Enter(nsess + 1)
  /\ keeper' = nsess + 1
  /\ pc' = IF exc' = "none" THEN "a_loop" ELSE "done"
  /\ UNCHANGED << cfg, fn, jig, rfr, clk, prepared, list_failed, ret, active, hit, SHUTDOWN, kbint, now, steps, deadline,
                  exits, released, tick, acqTick, relTick, sigAt, relAt, scen,
                  late_refresh >>

\* line 470: while not SHUTDOWN.is_set(), and the end of the with block
AlwLoop ==
  /\ pc = "a_loop"
  /\ IF AlwaysContinues(SHUTDOWN)
       THEN /\ pc' = "a_wait"
            /\ deadline' = now + ALWAYS_WAIT_SEC
            /\ UNCHANGED << ret, exits, relAt >>
       ELSE ExitCall(keeper, "done") /\ deadline' = deadline
  /\ UNCHANGED << cfg, fn, jig, rfr, clk, prepared, list_failed, keeper, active, hit, SHUTDOWN, kbint, now, steps,
                  released, tick, acqTick, relTick, sigAt, scen, late_refresh >>
  /\ UNCHANGED EnterVars

\* line 471
AlwWait ==
  /\ pc = "a_wait"
  /\ WaitOver
  /\ pc' = "a_loop"
  /\ UNCHANGED << cfg, fn, jig, rfr, clk, prepared, list_failed, ret, keeper, active, hit, SHUTDOWN, kbint, now, steps,
                  deadline, exits, released, tick, acqTick, relTick, sigAt,
                  relAt, scen, late_refresh >>
  /\ UNCHANGED EnterVars

(* ---------------------------------------------------------------------- *)
(* Shutdown requests and the clock                                         *)
(* ---------------------------------------------------------------------- *)
\* _on_signal: SIGINT/SIGTERM/SIGBREAK with the handler installed
Signal ==
  /\ pc \notin {"done", "exit2"}
  /\ ~SHUTDOWN
  /\ SHUTDOWN' = TRUE
  /\ sigAt' = IF sigAt = 0 - 1 THEN now ELSE sigAt
  /\ UNCHANGED << cfg, fn, jig, rfr, clk, prepared, list_failed, pc, ret, keeper, active, hit, kbint, now, steps,
                  deadline, exits, released, tick, acqTick, relTick, relAt,
                  scen, late_refresh >>
  /\ UNCHANGED EnterVars

\* SIGINT without the handler: KeyboardInterrupt is raised in the main
\* thread while it blocks in the process listing or in SHUTDOWN.wait.  In the
\* watch loop the except clause (438-439) leads to the finally block; in the
\* with block __exit__ runs and the except clause (456, 472) follows.
KeyboardInterrupt ==
  /\ ~kbint
  /\ kbint' = TRUE
  /\ sigAt' = IF sigAt = 0 - 1 THEN now ELSE sigAt
  /\ \/ /\ pc \in {"w_body", "w_wait"}
        /\ pc' = "w_finally"
        /\ UNCHANGED << ret, exits, relAt >>
     \/ /\ pc \in {"d_wait", "a_wait"}
        /\ ExitCall(keeper, "done")
  /\ UNCHANGED << cfg, fn, jig, rfr, clk, prepared, list_failed, keeper, active, hit, SHUTDOWN, now, steps, deadline,
                  released, tick, acqTick, relTick, scen, late_refresh >>
  /\ UNCHANGED EnterVars

\* the main thread is blocked in SHUTDOWN.wait
MainWaiting == pc \in {"w_wait", "d_wait", "a_wait"} /\ ~WaitOver

\* time passes while the main thread is blocked: one second, or all that is
\* left of the wait
Tick ==
  /\ MainWaiting
  /\ steps < MaxClockSteps
  /\ \E t \in {now + 1, deadline} : now' = t
  /\ steps' = steps + 1
  /\ UNCHANGED << cfg, fn, jig, rfr, clk, prepared, list_failed, pc, ret, keeper, active, hit, SHUTDOWN, kbint,
                  deadline, exits, released, tick, acqTick, relTick, sigAt,
                  relAt, scen, late_refresh >>
  /\ UNCHANGED EnterVars

(* ---------------------------------------------------------------------- *)
(* Background threads and the child process                                *)
(* ---------------------------------------------------------------------- *)
\* the process has not ended: main() has not returned or exited (the
\* background threads are daemon threads and end with it)
ProcessAlive == pc \notin {"done", "exit2"}

\* _win_refresh_loop, lines 284 and 290: the loop test, after wait(45) has
\* returned (by timeout or because _refresh_stop was set)
RefreshCheck(i) ==
  /\ ProcessAlive
  /\ refresh_thr[i] = "idle"
  /\ refresh_thr' = [refresh_thr EXCEPT ![i] =
                       IF refresh_stop[i] THEN "done" ELSE "call"]
  /\ UNCHANGED << cfg, fn, jig, rfr, clk, prepared, list_failed, pc, ret, keeper, active, hit, exc, SHUTDOWN,
                  kbint, now, steps, deadline, nsess, refresh_stop, jig_thr, jig_stop,
                  proc, psig, last_popen, es_state, acquired, exits, released, tick,
                  acqTick, relTick, sigAt, acqAt, relAt, scen, late_refresh >>

\* lines 285-289: SetThreadExecutionState(self._es_flags)
RefreshCall(i) ==
  /\ ProcessAlive
  /\ refresh_thr[i] = "call"
  /\ es_state' = win_compute_flags(cfg.display_only, cfg.system_only)
  /\ refresh_thr' = [refresh_thr EXCEPT ![i] = "idle"]
  /\ late_refresh' = (late_refresh \/ released[i])
  /\ UNCHANGED << cfg, fn, jig, rfr, clk, prepared, list_failed, pc, ret, keeper, active, hit, exc, SHUTDOWN,
                  kbint, now, steps, deadline, nsess, refresh_stop, jig_thr, jig_stop,
                  proc, psig, last_popen, acquired, exits, released, tick, acqTick,
                  relTick, sigAt, acqAt, relAt, scen >>

\* _WinMouseJiggler._run, lines 215 and 229: the loop test
JigCheck(i) ==
  /\ ProcessAlive
  /\ jig_thr[i] = "idle"
  /\ jig_thr' = [jig_thr EXCEPT ![i] = IF jig_stop[i] THEN "done" ELSE "move"]
  /\ UNCHANGED << cfg, fn, jig, rfr, clk, prepared, list_failed, pc, ret, keeper, active, hit, exc, SHUTDOWN,
                  kbint, now, steps, deadline, nsess, refresh_thr, refresh_stop,
                  jig_stop, proc, psig, last_popen, es_state, acquired, exits,
                  released, tick, acqTick, relTick, sigAt, acqAt, relAt, scen,
                  late_refresh >>

\* lines 216-228: one pass of the loop body
JigMove(i) ==
  /\ ProcessAlive
  /\ jig_thr[i] = "move"
  /\ jig_thr' = [jig_thr EXCEPT ![i] = "idle"]
  /\ UNCHANGED << cfg, fn, jig, rfr, clk, prepared, list_failed, pc, ret, keeper, active, hit, exc, SHUTDOWN,
                  kbint, now, steps, deadline, nsess, refresh_thr, refresh_stop,
                  jig_stop, proc, psig, last_popen, es_state, acquired, exits,
                  released, tick, acqTick, relTick, sigAt, acqAt, relAt, scen,
                  late_refresh >>

\* the child inhibitor exits (on a signal or by itself)
ChildExit(i) ==
  /\ proc[i] = "running"
  /\ proc' = [proc EXCEPT ![i] = "exited"]
  /\ UNCHANGED << cfg, fn, jig, rfr, clk, prepared, list_failed, pc, ret, keeper, active, hit, exc, SHUTDOWN,
                  kbint, now, steps, deadline, nsess, refresh_thr, refresh_stop,
                  jig_thr, jig_stop, psig, last_popen, es_state, acquired, exits,
                  released, tick, acqTick, relTick, sigAt, acqAt, relAt, scen,
                  late_refresh >>

(* ---------------------------------------------------------------------- *)
(* Specification                                                           *)
(* ---------------------------------------------------------------------- *)
MainStep ==
  \/ MainDispatch
  \/ WatchLoop
  \/ WatchTick
  \/ WatchAfterExit
  \/ WatchWait
  \/ WatchFinally
  \/ ExitBegin
  \/ ExitJoinRefresh
  \/ ExitClear
  \/ ExitJoinJiggle
  \/ ExitWaitChild
  \/ ExitReturn
  \/ DurEnter
  \/ DurWait
  \/ AlwEnter
  \/ AlwLoop
  \/ AlwWait

Next ==
  \/ MainStep
  \/ Signal
  \/ KeyboardInterrupt
  \/ Tick
  \/ \E i \in Sessions : RefreshCheck(i)
  \/ \E i \in Sessions : RefreshCall(i)
  \/ \E i \in Sessions : JigCheck(i)
  \/ \E i \in Sessions : JigMove(i)
  \/ \E i \in Sessions : ChildExit(i)

Spec == Init /\ [][Next]_vars

\* the main thread keeps running while it has a step to take
FairSpec == Spec /\ WF_vars(MainStep)

(* ---------------------------------------------------------------------- *)
(* Functions called on their own                                           *)
(* ---------------------------------------------------------------------- *)
S_obs64 == <<"o","b","s","6","4">>

S_OBS64_EXE == <<"O","B","S","6","4",".","E","X","E">>

S_bs == <<"b","s">>

S_freefilesync_exe ==
  <<"f","r","e","e","f","i","l","e","s","y","n","c",".","e","x","e">>

\* process-name strings: optional blanks, a name, optional blanks, up to two
\* ".exe" / ".EXE" suffixes with optional blanks between and after them
CanonInputs ==
  LET Pads  == { <<>>, <<" ">> }
      Cores == { <<>>, <<"a">>, <<"A","b">>, S_obs64, <<"O","B","S","6","4">> }
      Exts  == { <<>>, DotExe, <<".","E","X","E">> }
  IN  { p1 \o c \o e1 \o p2 \o e2 \o p3 :
          p1 \in Pads, c \in Cores, e1 \in Exts, p2 \in Pads, e2 \in Exts,
          p3 \in Pads }

\* longest target list given to any_match
MaxTargets == 2

\* canonical names for target lists and snapshots
NamePool == { S_obs, S_obs64, S_bs, <<>> }

RECURSIVE SeqsUpTo(_, _)
SeqsUpTo(S, n) ==
  IF n = 0 THEN { <<>> }
  ELSE LET shorter == SeqsUpTo(S, n - 1)
       IN  shorter \cup { Append(q, x) : q \in shorter, x \in S }

\* --watch lists as main() splits them: not given, blank entries only, names
RawWatchLists ==
  { <<>>, << <<>> >>, << <<" ">> >>, << <<>>, <<>> >>, << S_obs >>,
    << <<"f","i","l","e","s","y","n","c">> >> }

\* the arguments of the calls
CanonCalls == { [kind |-> "canon", done |-> FALSE, x |-> x, out |-> None] :
                  x \in CanonInputs }

MatchCalls ==
  { [kind |-> "any_match", done |-> FALSE, targets |-> ts, running |-> r,
     mode |-> m, out |-> None] :
      ts \in SeqsUpTo(NamePool, MaxTargets), r \in SUBSET NamePool,
      m \in {"exact", "startswith", "substr"} }

LinuxCalls == { [kind |-> "linux_enter", done |-> FALSE, avail |-> a] :
                  a \in SUBSET Facilities }

WatchCalls ==
  { [kind |-> "watch", done |-> FALSE, rows |-> r] :
      r \in SUBSET (ProcRows \cup {S_freefilesync_exe}) }

\* width in bits of the millisecond tick counter and of LASTINPUTINFO.dwTime
\* in this model (32 in Windows)
TickBits == 4

\* the tick counter wraps at 2^TickBits
TickModulus == 2 ^ TickBits

\* a value stored in a wintypes.DWORD field, or returned as a DWORD by the OS
DWORD(v) == v % TickModulus

\* a foreign function's return value as ctypes hands it over with the
\* default restype c_int (line 184 sets no restype): the same bits, signed
c_int(v) ==
  IF DWORD(v) >= TickModulus \div 2 THEN DWORD(v) - TickModulus ELSE DWORD(v)

\* _get_idle_seconds, in thousandths of a second (the value of `elapsed`,
\* which line 186 divides by 1000.0).  `ok` is the result of
\* GetLastInputInfo, `uptime` the milliseconds since boot and `last_input`
\* the milliseconds from boot to the last user input.
get_idle_seconds(ok, uptime, last_input) ==
  IF ~ok
    THEN 0
    ELSE LET tick_count == c_int(DWORD(uptime))
             dwTime == DWORD(last_input)
         IN  tick_count - dwTime

\* the system has been up for less than two periods of the counter, and the
\* last input is less than one period ago
IdleCalls ==
  { c \in [kind : {"idle"}, done : {FALSE}, ok : BOOLEAN,
           uptime : 0..(2 * TickModulus - 1),
           last_input : 0..(2 * TickModulus - 1), out : {0}] :
      c.last_input <= c.uptime /\ c.uptime - c.last_input < TickModulus }

FnInit ==
  /\ StartState
  /\ NoTask
  /\ \/ fn \in CanonCalls /\ cfg = BaseConfig
     \/ fn \in IdleCalls /\ cfg = [BaseConfig EXCEPT !.os = "Windows"]
     \/ fn \in MatchCalls /\ cfg = BaseConfig
     \/ /\ fn \in LinuxCalls
        /\ cfg \in { [BaseConfig EXCEPT !.os = "Linux", !.display_only = sc[1],
                                        !.system_only = sc[2]] :
                       sc \in { <<FALSE, FALSE>>, <<TRUE, FALSE>>, <<FALSE, TRUE>> } }
     \/ /\ fn \in WatchCalls
        /\ cfg \in { [BaseConfig EXCEPT !.os = o, !.watch = w, !.match = m] :
                       o \in {"Windows", "Linux"}, w \in RawWatchLists,
                       m \in {"substr", "exact"} }

\* canon(x)
ApplyCanon ==
  /\ fn.kind = "canon" /\ ~fn.done
  /\ fn' = [fn EXCEPT !.out = canon(fn.x), !.done = TRUE]
  /\ UNCHANGED << cfg, jig, rfr, clk, prepared, list_failed, pc, ret, keeper,
                  active, hit, SHUTDOWN, kbint, now, steps, deadline, exits, released, tick,
                  acqTick, relTick, sigAt, relAt, scen, late_refresh >>
  /\ UNCHANGED EnterVars

\* any_match(targets, running, mode)
ApplyAnyMatch ==
  /\ fn.kind = "any_match" /\ ~fn.done
  /\ \E r \in any_match(fn.targets, fn.running, fn.mode) :
       fn' = [fn EXCEPT !.out = r, !.done = TRUE]
  /\ UNCHANGED << cfg, jig, rfr, clk, prepared, list_failed, pc, ret, keeper,
                  active, hit, SHUTDOWN, kbint, now, steps, deadline, exits, released, tick,
                  acqTick, relTick, sigAt, relAt, scen, late_refresh >>
  /\ UNCHANGED EnterVars

\* StayAwake(...).__enter__() on Linux where shutil.which finds fn.avail
ApplyLinuxEnter ==
  /\ fn.kind = "linux_enter" /\ ~fn.done
  /\ LinuxEnter(1, fn.avail)
  /\ nsess' = 1
  /\ acqAt' = [acqAt EXCEPT ![1] = now]
  /\ acquired' = [acquired EXCEPT ![1] = (exc' = "none")]
  /\ fn' = [fn EXCEPT !.done = TRUE]
  /\ UNCHANGED << cfg, jig, rfr, clk, prepared, list_failed, pc, ret, keeper,
                  active, hit, SHUTDOWN, kbint, now, steps, deadline, exits, released, tick,
                  acqTick, relTick, sigAt, relAt, scen, late_refresh >>

\* watch_and_keep_awake(targets, match_mode) up to the first any_match:
\* lines 403, 410 and 418, the listing showing fn.rows
ApplyWatchStart ==
  /\ fn.kind = "watch" /\ ~fn.done
  /\ prepared' = prepare_targets(targets_or_default, cfg.match)
  /\ hit' \in any_match(prepared', list_process_names(cfg.os, fn.rows), cfg.match)
  /\ fn' = [fn EXCEPT !.done = TRUE]
  /\ UNCHANGED << cfg, jig, rfr, clk, list_failed, pc, ret, keeper, active,
                  SHUTDOWN, kbint, now, steps, deadline, exits, released, tick,
                  acqTick, relTick, sigAt, relAt, scen, late_refresh >>
  /\ UNCHANGED EnterVars

\* _get_idle_seconds()
ApplyGetIdle ==
  /\ fn.kind = "idle" /\ ~fn.done
  /\ fn' = [fn EXCEPT !.out = get_idle_seconds(fn.ok, fn.uptime, fn.last_input),
                      !.done = TRUE]
  /\ UNCHANGED << cfg, jig, rfr, clk, prepared, list_failed, pc, ret, keeper,
                  active, hit, SHUTDOWN, kbint, now, steps, deadline, exits, released, tick,
                  acqTick, relTick, sigAt, relAt, scen, late_refresh >>
  /\ UNCHANGED EnterVars

FnNext ==
  \/ ApplyCanon
  \/ ApplyAnyMatch
  \/ ApplyLinuxEnter
  \/ ApplyWatchStart
  \/ ApplyGetIdle

FnSpec == FnInit /\ [][FnNext]_vars

(* ---------------------------------------------------------------------- *)
(* The background tasks run on their own: a _WinMouseJiggler under any     *)
(* sequence of start() and stop() calls, and a _win_refresh_loop thread.   *)
(* A thread's code between two waits takes no time.                        *)
(* ---------------------------------------------------------------------- *)
\* steps of the clock
MaxTaskSteps == 3

\* start() and stop() calls made on the jiggler
MaxCalls == 3

\* line 290: self._refresh_stop.wait(45)
REFRESH_WAIT_SEC == 45

\* line 222: self._stop.wait(1.0)
SKIP_WAIT_SEC == 1

\* idle_threshold None
NoThreshold == 0 - 1

\* what _get_idle_seconds returns, seconds
IdleValues == 0..3

Threads == 1..MaxCalls

TaskInit ==
  /\ StartState
  /\ fn = NoCall
  /\ cfg = BaseConfig
  /\ clk = 0
  /\ \/ /\ rfr = NoRefresh
        /\ jig \in [ os        : {"Windows", "Linux"},
                     interval  : {1, 2},
                     threshold : {NoThreshold, 0, 2},
                     stop      : {FALSE},
                     thr       : {0},
                     made      : {0},
                     calls     : {0},
                     steps     : {0},
                     pos       : {[t \in Threads |-> "unborn"]},
                     wake      : {[t \in Threads |-> 0]},
                     first     : {[t \in Threads |-> 0]},
                     emits     : {[t \in Threads |-> 0]},
                     idle      : {0},
                     dx        : {0},
                     low       : {FALSE},
                     high      : {FALSE},
                     clean     : {TRUE},
                     last      : {"none"} ]
     \/ /\ jig = NoJiggler
        /\ rfr = [ at |-> "test", stop |-> FALSE, wake |-> 0, steps |-> 0,
                   last |-> "none" ]

\* the main program, which the tasks leave alone
ProgramVars ==
  << cfg, fn, prepared, list_failed, pc, ret, keeper, active, hit, SHUTDOWN,
     kbint, now, steps, deadline, exits, released, tick, acqTick, relTick,
     sigAt, relAt, scen, late_refresh, EnterVars >>

\* self._thr and self._thr.is_alive()
thr_is_alive == jig.thr # 0 /\ jig.pos[jig.thr] # "end"

\* a start() that never returns early
start_returns_early_Never(has_thr, alive) == FALSE

\* line 235: if self._thr and self._thr.is_alive(): return
start_returns_early(has_thr, alive) == has_thr /\ alive

\* _WinMouseJiggler.start
JigStart ==
  /\ jig.os # "none" /\ jig.calls < MaxCalls
  /\ IF jig.os # "Windows" \/ start_returns_early(jig.thr # 0, thr_is_alive)
       THEN jig' = [jig EXCEPT !.calls = @ + 1]
       ELSE LET t == jig.made + 1
            IN  jig' = [jig EXCEPT !.calls = @ + 1, !.stop = FALSE, !.thr = t,
                                   !.made = t, !.pos[t] = "test",
                                   !.first[t] = clk]
  /\ UNCHANGED << rfr, clk, ProgramVars >>

\* _WinMouseJiggler.stop; join(timeout=2) returns whether or not the thread
\* has ended by then
JigStop ==
  /\ jig.os # "none" /\ jig.calls < MaxCalls
  /\ IF jig.os # "Windows" \/ jig.thr = 0
       THEN jig' = [jig EXCEPT !.calls = @ + 1]
       ELSE jig' = [jig EXCEPT !.calls = @ + 1, !.stop = TRUE]
  /\ UNCHANGED << rfr, clk, ProgramVars >>

\* line 215: while not self._stop.is_set()
JigTest(t) ==
  /\ jig.os # "none" /\ jig.pos[t] = "test"
  /\ jig' = [jig EXCEPT !.pos[t] = IF jig.stop THEN "end" ELSE "gate",
                         !.last = IF jig.stop THEN @ ELSE "none"]
  /\ UNCHANGED << rfr, clk, ProgramVars >>

\* an idle gate that never skips
IdleGateSkips_Never(idle, threshold) == FALSE

\* lines 217-219: the tick is skipped
IdleGateSkips(idle, threshold) == threshold # NoThreshold /\ idle < threshold

\* an exception that ends the thread
on_exception_Dies == "end"

\* lines 227-229: except Exception, then self._stop.wait(self.interval)
on_exception == "wait"

\* the thread after an exception raised in its try block at time clk
JigCaught(t) ==
  [jig EXCEPT !.pos[t] = on_exception, !.wake[t] = clk + jig.interval,
              !.clean = FALSE, !.last = "fail"]

\* lines 217-223: the idle gate; _get_idle_seconds returns v or raises
JigGate(t) ==
  /\ jig.os # "none" /\ jig.pos[t] = "gate"
  /\ IF jig.threshold = NoThreshold
       THEN jig' = [jig EXCEPT !.pos[t] = "move1"]
       ELSE \/ jig' = JigCaught(t)
            \/ \E v \in IdleValues :
                 jig' = [jig EXCEPT
                           !.idle = v,
                           !.low  = @ \/ v < jig.threshold,
                           !.high = @ \/ v >= jig.threshold,
                           !.pos[t]  = IF IdleGateSkips(v, jig.threshold)
                                         THEN "wait" ELSE "move1",
                           !.wake[t] = IF IdleGateSkips(v, jig.threshold)
                                         THEN clk + SKIP_WAIT_SEC ELSE @,
                           !.last = IF IdleGateSkips(v, jig.threshold)
                                      THEN "skip" ELSE @]
  /\ UNCHANGED << rfr, clk, ProgramVars >>

\* line 224: move(self.pixels, 0), or SendInput raises
JigMovePlus(t) ==
  /\ jig.os # "none" /\ jig.pos[t] = "move1"
  /\ \/ jig' = [jig EXCEPT !.pos[t] = "move2", !.dx = @ + 1]
     \/ jig' = JigCaught(t)
  /\ UNCHANGED << rfr, clk, ProgramVars >>

\* lines 225-229: move(-self.pixels, 0), then self._stop.wait(self.interval)
JigMoveMinus(t) ==
  /\ jig.os # "none" /\ jig.pos[t] = "move2"
  /\ \/ jig' = [jig EXCEPT !.pos[t] = "wait", !.dx = @ - 1,
                           !.emits[t] = @ + 1, !.wake[t] = clk + jig.interval,
                           !.last = "emit"]
     \/ jig' = JigCaught(t)
  /\ UNCHANGED << rfr, clk, ProgramVars >>

\* lines 222 and 229: self._stop.wait(...) returns
JigWake(t) ==
  /\ jig.os # "none" /\ jig.pos[t] = "wait"
  /\ EventWaitOver(jig.stop, clk, jig.wake[t])
  /\ jig' = [jig EXCEPT !.pos[t] = "test"]
  /\ UNCHANGED << rfr, clk, ProgramVars >>

\* line 284: while not self._refresh_stop.is_set()
RfrTest ==
  /\ rfr.at = "test"
  /\ rfr' = [rfr EXCEPT !.at = IF rfr.stop THEN "end" ELSE "call"]
  /\ UNCHANGED << jig, clk, ProgramVars >>

\* lines 288-290: except Exception, then self._refresh_stop.wait(45)
refresh_on_exception == "wait"

\* lines 285-290: SetThreadExecutionState returns or raises, then wait(45)
RfrCall ==
  /\ rfr.at = "call"
  /\ \/ rfr' = [rfr EXCEPT !.at = "wait", !.wake = clk + REFRESH_WAIT_SEC,
                           !.last = "ok"]
     \/ rfr' = [rfr EXCEPT !.at = refresh_on_exception,
                           !.wake = clk + REFRESH_WAIT_SEC, !.last = "fail"]
  /\ UNCHANGED << jig, clk, ProgramVars >>

\* line 290: self._refresh_stop.wait(45) returns
RfrWake ==
  /\ rfr.at = "wait"
  /\ EventWaitOver(rfr.stop, clk, rfr.wake)
  /\ rfr' = [rfr EXCEPT !.at = "test"]
  /\ UNCHANGED << jig, clk, ProgramVars >>

\* line 364: self._refresh_stop.set()
RfrStop ==
  /\ rfr.at \notin {"none", "end"} /\ ~rfr.stop
  /\ rfr' = [rfr EXCEPT !.stop = TRUE]
  /\ UNCHANGED << jig, clk, ProgramVars >>

\* the jiggler's threads are all blocked in a wait, and one of them is
JigBlocked ==
  /\ jig.os # "none"
  /\ \E t \in Threads : jig.pos[t] = "wait"
  /\ \A t \in Threads :
       /\ jig.pos[t] \in {"unborn", "end", "wait"}
       /\ jig.pos[t] = "wait" => ~EventWaitOver(jig.stop, clk, jig.wake[t])

\* time passes while the jiggler's threads wait: one second
JigTick ==
  /\ JigBlocked /\ jig.steps < MaxTaskSteps
  /\ clk' = clk + 1
  /\ jig' = [jig EXCEPT !.steps = @ + 1]
  /\ UNCHANGED << rfr, ProgramVars >>

\* time passes while the refresh thread waits: one second, or all the rest
RfrTick ==
  /\ rfr.at = "wait" /\ ~EventWaitOver(rfr.stop, clk, rfr.wake)
  /\ rfr.steps < MaxTaskSteps
  /\ \E c \in {clk + 1, rfr.wake} : clk' = c
  /\ rfr' = [rfr EXCEPT !.steps = @ + 1]
  /\ UNCHANGED << jig, ProgramVars >>

TaskNext ==
  \/ JigStart
  \/ JigStop
  \/ \E t \in Threads : JigTest(t)
  \/ \E t \in Threads : JigGate(t)
  \/ \E t \in Threads : JigMovePlus(t)
  \/ \E t \in Threads : JigMoveMinus(t)
  \/ \E t \in Threads : JigWake(t)
  \/ JigTick
  \/ RfrTest
  \/ RfrCall
  \/ RfrWake
  \/ RfrStop
  \/ RfrTick

TaskSpec == TaskInit /\ [][TaskNext]_vars

(* ---------------------------------------------------------------------- *)
(* Properties                                                              *)
(* ---------------------------------------------------------------------- *)
\* a WakeSession is open from the return of its __enter__ to the return of
\* its __exit__
Open(i) == acquired[i] /\ ~released[i]

\* the control loop holds a WakeSession: its keeper was acquired and no
\* release of it has been called
Held == keeper # 0 /\ acquired[keeper] /\ exits[keeper] = 0

RECURSIVE SumExits(_)
SumExits(n) == IF n = 0 THEN 0 ELSE exits[n] + SumExits(n - 1)

\* number of __enter__ calls and of __exit__ calls so far
AcquireCalls == nsess

ReleaseCalls == SumExits(MaxSessions)

\* a shutdown request has arrived: the signal handler set SHUTDOWN, or
\* SIGINT was delivered as KeyboardInterrupt
ShutdownRequested == SHUTDOWN \/ kbint

AllReleased == \A i \in Sessions : acquired[i] => exits[i] >= 1 /\ released[i]

\* C1: in the watch loop at most one WakeSession is open at any time, for
\* every sequence of snapshots, and when the loop has ended the number of
\* acquire calls equals the number of release calls.
C1_AtMostOneSession ==
  Mode = "watch" =>
    /\ Cardinality({i \in Sessions : Open(i)}) <= 1
    /\ (pc = "done" => AcquireCalls = ReleaseCalls)

\* two sessions were opened and closed by a toggling snapshot sequence
C1_Witness ==
  /\ Mode = "watch" /\ pc = "done" /\ nsess = 2
  /\ \A i \in 1..2 : acquired[i] /\ released[i]
  /\ relTick[1] = acqTick[1] + 1 /\ acqTick[2] = relTick[1] + 1

\* C2: at the end of each poll tick, just before the inter-tick wait, a
\* WakeSession is held if and only if the match of that tick was a hit.
C2_HeldIffHit ==
  Mode = "watch" /\ pc = "w_wait" => (Held <=> Truthy(hit))

\* after a release, a second session is held at the end of a tick with a hit
C2_Witness ==
  Mode = "watch" /\ pc = "w_wait" /\ Held /\ Truthy(hit) /\ keeper = 2

\* C3: when an acquire attempt fails inside the watch loop, the loop does
\* not terminate: it stays Inactive with no session held and goes on polling.
C3_LoopSurvivesFailedAcquire ==
  Mode = "watch" /\ (\E i \in 1..nsess : ~acquired[i]) /\ ~ShutdownRequested
    => pc \in {"w_loop", "w_body", "w_wait"} /\ ~active /\ ~Held

\* C4: each release call is made on a session whose acquire completed and
\* which has not been released: no release of a never-acquired session, no
\* double release.
C4_ReleaseMatchesAcquire ==
  \A i \in Sessions : exits[i] <= 1 /\ (exits[i] >= 1 => acquired[i])

\* a step of the main thread through the loop body (lines 410-435)
TickStep == pc = "w_body" /\ pc' # "w_body" /\ kbint' = kbint

\* C5: the watch loop starts Inactive; a tick calls acquire exactly when it
\* has a hit while no session is held, and release exactly when it has no hit
\* while a session is held; any other release call is the one of the finally
\* block.  For the snapshots [{}, {obs}, {obs}, {}] with Substring target
\* obs: exactly one acquire, in tick 2, and exactly one release, in tick 4.
C5_Transitions ==
  /\ [](Mode = "watch" =>
          /\ (tick = 0 => ~active /\ keeper = 0 /\ nsess = 0)
          /\ (cfg.watch = <<S_obs>> /\ cfg.match = "substr" /\ scen = 4
                /\ pc = "w_wait"
                => /\ AcquireCalls = 1 /\ ReleaseCalls = 1
                   /\ acqTick[1] = 2 /\ relTick[1] = 4))
  /\ [][Mode = "watch" =>
          /\ (AcquireCalls' # AcquireCalls
                <=> TickStep /\ Truthy(hit') /\ ~Held)
          /\ (TickStep =>
                (ReleaseCalls' # ReleaseCalls <=> ~Truthy(hit') /\ Held))
          /\ (ReleaseCalls' # ReleaseCalls /\ ~TickStep => pc = "w_finally")
       ]_vars

\* the scenario has run to the end of its fourth tick
C5_Witness ==
  /\ Mode = "watch" /\ cfg.watch = <<S_obs>> /\ cfg.match = "substr"
  /\ cfg.poll = 1 /\ scen = 4 /\ pc = "w_wait" /\ relTick[1] = 4

\* C6: when watch_and_keep_awake, keep_awake_for or keep_awake_always has
\* exited, every session that was acquired has been released (the release
\* was called and has returned), whatever ended the function.
C6_ReleasedOnExit == pc = "done" => AllReleased

\* the watch loop was left by KeyboardInterrupt while a session was held
C6_Witness ==
  /\ Mode = "watch" /\ pc = "done" /\ kbint /\ ~SHUTDOWN
  /\ acquired[1] /\ released[1] /\ relTick[1] = 0

\* C7: once the shutdown signal is set, every mode performs its release and
\* terminates, without the clock having to advance.
C7_ShutdownTerminates ==
  SHUTDOWN ~> (pc \in {"done", "exit2"} /\ AllReleased)

\* always-on mode has terminated on the signal long before its wait ends
C7_Witness ==
  /\ Mode = "always" /\ pc = "done" /\ SHUTDOWN /\ acquired[1] /\ released[1]
  /\ now < deadline

\* the time at which keep_awake_for must release: the end of the duration,
\* or the first shutdown request if that comes earlier
DurationReleaseTime ==
  LET elapsed == acqAt[1] + Max(0, cfg.duration)
  IN  IF sigAt # 0 - 1 /\ sigAt <= elapsed THEN Max(sigAt, acqAt[1]) ELSE elapsed

\* C8: keep_awake_for acquires exactly once and releases the acquired
\* session exactly once, at the earlier of the duration having elapsed and
\* the shutdown request; without a request not before the duration elapsed.
C8_DurationMode ==
  Mode = "duration" =>
    /\ AcquireCalls <= 1
    /\ (pc \notin {"main", "d_enter"} => AcquireCalls = 1)
    /\ ReleaseCalls <= 1
    /\ (pc = "done" => ReleaseCalls = IF acquired[1] THEN 1 ELSE 0)
    /\ (exits[1] >= 1 =>
          /\ relAt[1] = DurationReleaseTime
          /\ (~ShutdownRequested => now >= acqAt[1] + cfg.duration))

\* duration 5, shutdown at t = 2, released at t = 2
C8_Witness ==
  /\ Mode = "duration" /\ cfg.duration = 5 /\ pc = "done"
  /\ SHUTDOWN /\ sigAt = 2 /\ relAt[1] = 2 /\ released[1]

\* C9: keep_awake_always acquires exactly once, keeps the session held for
\* as long as no shutdown is requested, and releases exactly once after it.
C9_AlwaysOnMode ==
  Mode = "always" =>
    /\ AcquireCalls <= 1
    /\ (pc \notin {"main", "a_enter"} => AcquireCalls = 1)
    /\ ReleaseCalls <= 1
    /\ (ReleaseCalls >= 1 => ShutdownRequested)
    /\ (acquired[1] /\ ~ShutdownRequested => Held /\ pc \in {"a_loop", "a_wait"})
    /\ (pc = "done" => ReleaseCalls = IF acquired[1] THEN 1 ELSE 0)

\* the session is still held after a whole wait of 3600 s has timed out
C9_Witness ==
  /\ Mode = "always" /\ pc = "a_wait" /\ now >= ALWAYS_WAIT_SEC
  /\ Held /\ ~ShutdownRequested

\* C10: on Windows, once release has returned the execution state is clear
\* and the session's refresh thread never sets it again.
C10_NoRefreshAfterRelease ==
  /\ ~late_refresh
  /\ (cfg.os = "Windows" /\ (\A i \in Sessions : acquired[i] => released[i])
        => es_state = ES_CONTINUOUS)

\* C11: on the child-inhibitor strategy, when release has returned the
\* child was sent the terminate signal (and the kill signal if it had not
\* exited within the grace timeout) and has been reaped on both paths.
C11_ChildReapedOnRelease ==
  \A i \in Sessions :
    released[i] /\ proc[i] # "none" =>
      psig[i] \in {"TERM", "KILL"} /\ proc[i] = "reaped"

\* C12: a failed process enumeration yields the empty set, so its tick is a
\* no-hit and the loop goes on polling.
C12_EnumFailureIsNoHit ==
  Mode = "watch" /\ list_failed /\ ~ShutdownRequested =>
    ~Truthy(hit) /\ ~Held /\ pc \notin {"w_finally", "done"}

\* C13: on Windows, when the initial SetThreadExecutionState reports
\* failure, __enter__ raises OSError at once: the execution state was not set
\* by a further attempt, and neither the refresh thread nor the jiggler
\* thread of that StayAwake has been started.
C13_FailedAssertStartsNothing ==
  cfg.os = "Windows" =>
    \A i \in 1..nsess :
      ~acquired[i] =>
        /\ exc = "OSError"
        /\ refresh_thr[i] = "none" /\ jig_thr[i] = "none"
        /\ (i = 1 => es_state = ES_CONTINUOUS)

\* the first acquire failed on Windows with the jiggler enabled
C13_Witness ==
  /\ cfg.os = "Windows" /\ cfg.jiggle /\ nsess = 1 /\ ~acquired[1]
  /\ exc = "OSError" /\ pc \in {"w_finally", "done"}

\* the facility __enter__ spawned, read off the argv of its Popen call
SpawnedFacility ==
  IF last_popen = <<>> THEN "none"
  ELSE IF Head(last_popen) = "bash" THEN "xdg-screensaver"
  ELSE Head(last_popen)

\* C14: on Linux __enter__ uses the first available of systemd-inhibit,
\* gnome-session-inhibit, xdg-screensaver; it fails for no inhibitor exactly
\* when none is available and for the unsupported scope exactly when only
\* xdg-screensaver is available and the scope is system-only; a failing
\* __enter__ spawns no child.
C14_LinuxFacilityOrder ==
  fn.kind = "linux_enter" /\ fn.done =>
    LET a == fn.avail
        systemOnly == cfg.system_only /\ ~cfg.display_only
        first == IF "systemd-inhibit" \in a THEN "systemd-inhibit"
                 ELSE IF "gnome-session-inhibit" \in a THEN "gnome-session-inhibit"
                 ELSE "xdg-screensaver"
    IN  /\ (exc = "EnvironmentError: no inhibitor" <=> a = {})
        /\ (exc = "EnvironmentError: system-only"
              <=> a = {"xdg-screensaver"} /\ systemOnly)
        /\ (exc # "none" => proc[1] = "none" /\ last_popen = <<>> /\ ~acquired[1])
        /\ (exc = "none" =>
              proc[1] = "running" /\ acquired[1] /\ SpawnedFacility = first)

\* gnome-session-inhibit was used though xdg-screensaver was also there
C14_Witness ==
  /\ fn.kind = "linux_enter" /\ fn.done
  /\ fn.avail = {"gnome-session-inhibit", "xdg-screensaver"}
  /\ cfg.system_only /\ SpawnedFacility = "gnome-session-inhibit"

\* C18: canon is idempotent, canon(canon(x)) = canon(x) for every
\* process-name string x, and canon("OBS64.EXE") = canon("obs64").
C18_CanonIdempotent ==
  /\ canon(S_OBS64_EXE) = canon(S_obs64)
  /\ (fn.kind = "canon" /\ fn.done => canon(fn.out) = fn.out)

\* the predicate of each match mode, as the claim states it
ModePredicate(p, t, mode) ==
  CASE mode = "exact"      -> p = t
    [] mode = "startswith" -> \E k \in 0..Len(p) : t = SubSeq(p, 1, k)
    [] OTHER               -> \E i \in 1..(Len(p) + 1) :
                                \E j \in (i - 1)..Len(p) : t = SubSeq(p, i, j)

\* C19: any_match returns a name iff some running name p and some target t
\* satisfy the mode predicate (exact: p = t; startswith: t is a prefix of p;
\* substr: t is a substring of p); the returned name is a running name that
\* satisfies it; the result is None when targets or snapshot is empty or no
\* pair matches.
C19_AnyMatch ==
  fn.kind = "any_match" /\ fn.done =>
    LET Matches(p) == \E k \in 1..Len(fn.targets) :
                        ModePredicate(p, fn.targets[k], fn.mode)
    IN  /\ (fn.out # None <=> \E p \in fn.running : Matches(p))
        /\ (fn.out # None => fn.out \in fn.running /\ Matches(fn.out))
        /\ (fn.targets = <<>> \/ fn.running = {} => fn.out = None)

\* obs64 was returned for the target bs, a substring but not a prefix
C19_Witness ==
  /\ fn.kind = "any_match" /\ fn.done /\ fn.mode = "substr"
  /\ fn.targets = <<S_bs>> /\ fn.out = S_obs64

\* the watch list has no usable target: it is empty or all its entries are
\* blank
NoUsableTarget == \A k \in 1..Len(cfg.watch) : strip(cfg.watch[k]) = <<>>

\* C20: a watch list without a usable target (empty, or blank entries only)
\* makes the loop match against DEFAULT_WATCH, so in substr mode a listing
\* with freefilesync.exe is a hit.
C20_DefaultListFallback ==
  fn.kind = "watch" /\ fn.done /\ NoUsableTarget =>
    /\ prepared = prepare_targets(DEFAULT_WATCH, cfg.match)
    /\ (cfg.match = "substr" /\ S_freefilesync_exe \in fn.rows => Truthy(hit))

\* the threads of the jiggler that have been started and have not ended
LiveThreads == { t \in Threads : jig.pos[t] \notin {"unborn", "end"} }

\* C15: with idle_threshold T set, a tick of the jiggler moves the pointer
\* only if the idle time it read is >= T; while every idle time read was
\* below T nothing was emitted; while every one was >= T (and nothing
\* raised) a thread that waits has made one emission, +pixels then -pixels,
\* per interval since it started.
C15_IdleGate ==
  jig.os # "none" /\ jig.threshold # NoThreshold =>
    /\ \A t \in Threads :
         jig.pos[t] \in {"move1", "move2"} => jig.idle >= jig.threshold
    /\ (~jig.high => jig.dx = 0 /\ \A t \in Threads : jig.emits[t] = 0)
    /\ (~jig.low /\ jig.clean =>
          \A t \in Threads :
            jig.pos[t] = "wait" =>
              /\ jig.dx = 0
              /\ jig.emits[t] * jig.interval = jig.wake[t] - jig.first[t])

\* threshold 2, every idle time >= 2, interval 1: two emissions made
C15_Witness ==
  /\ jig.os = "Windows" /\ jig.threshold = 2 /\ jig.interval = 1
  /\ jig.high /\ ~jig.low /\ jig.clean
  /\ \E t \in Threads : jig.pos[t] = "wait" /\ jig.emits[t] = 2

\* C16: start() while the thread runs and stop() while the jiggler is
\* stopped (never started, or stop() already called) change nothing, and for
\* every sequence of start() and stop() calls at most one thread of the
\* jiggler is alive.
C16_SingleTask ==
  /\ [](jig.os # "none" => Cardinality(LiveThreads) <= 1)
  /\ [][ \/ JigStart /\ thr_is_alive
         \/ JigStop /\ (jig.thr = 0 \/ jig.stop)
         => jig' = [jig EXCEPT !.calls = @ + 1] ]_vars

\* start() was called again while the one thread was running
C16_Witness ==
  /\ jig.os = "Windows" /\ jig.calls = MaxCalls /\ jig.made = 1
  /\ ~jig.stop /\ thr_is_alive

\* C17: an exception raised in a tick of the jiggler (idle query or move)
\* or of the refresh loop is caught in the thread: the thread waits its
\* interval and goes on; it ends only when its stop event is set, and
\* nothing is raised in the main thread.
C17_TaskSurvivesFailure ==
  /\ [](/\ exc = "none"
        /\ (jig.os # "none" /\ jig.thr # 0 /\ jig.pos[jig.thr] = "end"
              => jig.stop)
        /\ (rfr.at = "end" => rfr.stop))
  /\ [][ /\ \A t \in Threads :
              jig.os # "none" /\ jig.pos[t] \in {"gate", "move1", "move2"}
              /\ jig'.pos[t] # jig.pos[t] /\ jig'.last = "fail"
              => jig'.pos[t] = "wait" /\ jig'.wake[t] = clk + jig.interval
         /\ (rfr.at = "call" /\ rfr'.at # "call" /\ rfr'.last = "fail"
              => rfr'.at = "wait" /\ rfr'.wake = clk + REFRESH_WAIT_SEC) ]_vars

\* a jiggler thread emitted again after an exception had been caught
C17_Witness ==
  /\ jig.os = "Windows" /\ ~jig.clean /\ jig.last = "emit"
  /\ \E t \in Threads : jig.pos[t] = "wait" /\ jig.emits[t] >= 1

\* the jiggler thread of StayAwake i has been stopped: it was never started,
\* it has ended, or it waits with its stop event set (and ends at its next
\* loop test without a further move)
JigglerStopped(i) ==
  \/ jig_thr[i] \in {"none", "done"}
  \/ jig_thr[i] = "idle" /\ jig_stop[i]

\* C21: the jiggler task runs only while its WakeSession is open: it is
\* started only by a successful acquire with jiggle configured, and once
\* release of that session has returned, on every path through release, the
\* task has been stopped and makes no further move.
C21_JigglerOnlyWhileOpen ==
  \A i \in Sessions :
    /\ jig_thr[i] # "none" => acquired[i] /\ cfg.jiggle /\ cfg.os = "Windows"
    /\ released[i] => JigglerStopped(i)

\* C22: once the shutdown signal has been set, the watch loop makes no
\* further acquire call, at whatever point of the tick the signal arrived
\* (during the snapshot, during matching, or during the inter-tick wait).
C22_NoAcquireAfterShutdown ==
  [][Mode = "watch" /\ SHUTDOWN => AcquireCalls' = AcquireCalls]_vars

\* C23: the idle time that _get_idle_seconds reports is non-negative and
\* equals the time elapsed since the last user input, for every value of the
\* tick counter and of the last-input tick, also when the counter has
\* wrapped around between the last input and the query.
C23_IdleSecondsWrap ==
  fn.kind = "idle" /\ fn.done /\ fn.ok =>
    fn.out >= 0 /\ fn.out = fn.uptime - fn.last_input

====
